---- MODULE Spec2Model ----
(***************************************************************************)
(* Fetch-orchestration engine of the scraper (src/scraper.py, class        *)
(* Scraper): batch dedup by URL fingerprint, per-URL retry loop, the two   *)
(* fetch strategies under the shared semaphore, the adaptive per-domain    *)
(* delay, and the shutdown of the client / browser / Playwright driver.    *)
(*                                                                         *)
(* One asyncio task runs _fetch_with_retry for each unique URL.  Tasks     *)
(* interleave only at awaits, so every action below is the code between    *)
(* the completion of one await and the suspension at the next one.         *)
(* Times are integers in ticks of 1/Scale second.                          *)
(***************************************************************************)
EXTENDS Bags, FiniteSets, Integers, Sequences, TLC

\* ---- config.py ---------------------------------------------------------
MAX_CONCURRENT_REQUESTS == 5
RETRY_TIMES == 3
RETRY_HTTP_CODES == {500, 502, 503, 504, 408, 429}
MIN_DELAY == 1
MAX_DELAY == 5
AUTOTHROTTLE_TARGET_CONCURRENCY == 2

\* ---- bounds of the model -----------------------------------------------
\* ticks per second
Scale == 4
\* longest batch drawn by Init
MaxBatch == 2
\* failing statuses and faults the environment may produce in the run of
\* one URL, enough to use up its retries
RetryFailures == 4
\* the same in the run that has more tasks than the semaphore has slots
BudgetFailures == 0
\* largest latency of a request, in seconds
MaxLatency == 12
\* calls of close() the owner of the Scraper may make itself
OwnerCloses == 2
\* failing statuses and faults in the run of a batch of two URLs
PairFailures == 1

Ticks(s) == s * Scale

Max(a, b) == IF a >= b THEN a ELSE b
Min(a, b) == IF a <= b THEN a ELSE b

\* ---- URLs as urlparse splits them ---------------------------------------
\* query tokens (the pieces of parsed.query between '&'), in str order
TokenOrder == <<"a=1", "b=2">>

TokLess(s, t) ==
    \E i, j \in 1..Len(TokenOrder) :
        /\ TokenOrder[i] = s
        /\ TokenOrder[j] = t
        /\ i < j

\* str.lower() on the scheme and netloc strings that occur in the batches
Lower(s) ==
    CASE s = "HTTP" -> "http"
      [] s = "A.test" -> "a.test"
      [] OTHER -> s

Url(sc, nl, p, q) == [scheme |-> sc, netloc |-> nl, path |-> p, query |-> q]

U1 == Url("http", "a.test", "/x", <<"b=2", "a=1">>)
U2 == Url("http", "a.test", "/x", <<"a=1", "b=2">>)
U3 == Url("HTTP", "A.test", "/x", <<"a=1", "b=2">>)
U4 == Url("http", "a.test", "/y", <<>>)

URLS == {U1, U2, U3, U4}

Netlocs == {"a.test", "A.test"}

\* sorted(list of tokens): insertion into an already sorted sequence
RECURSIVE Insert(_, _)
Insert(t, s) ==
    IF s = <<>> THEN <<t>>
    ELSE IF TokLess(Head(s), t) \/ Head(s) = t
         THEN <<Head(s)>> \o Insert(t, Tail(s))
         ELSE <<t>> \o s

RECURSIVE Sorted(_)
Sorted(s) == IF s = <<>> THEN <<>> ELSE Insert(Head(s), Sorted(Tail(s)))


\* _fingerprint without sorted(): the query is kept in the order given
FingerprintUnsorted(u) ==
    <<Lower(u.scheme), Lower(u.netloc), u.path, u.query>>

\* _fingerprint: the normalized string; sha1 is taken to be collision free,
\* so the digest is represented by the string it is computed from
Fingerprint(u) ==
    <<Lower(u.scheme), Lower(u.netloc), u.path,
      IF u.query # <<>> THEN Sorted(u.query) ELSE <<>> >>

\* urlparse(url).netloc, the key of self.delays
Domain(u) == u.netloc

\* ---- ScrapeResult -------------------------------------------------------
NoResult == [status |-> 0, success |-> FALSE, html |-> "", error |-> "none",
             rendered |-> FALSE, set |-> FALSE]

ScrapeResult(st, ok, h, e, r) ==
    [status |-> st, success |-> ok, html |-> h, error |-> e,
     rendered |-> r, set |-> TRUE]

HttpError(st) == "HTTP " \o ToString(st)

\* exceptions raised by httpx / Playwright calls
Faults == {[type |-> "ConnectError", msg |-> "refused"],
           [type |-> "TimeoutError", msg |-> "timed out"]}

\* f"{type(exc).__name__}: {exc}"
Describe(f) == f.type \o ": " \o f.msg

\* str(e)
Str(f) == f.msg

\* response.status_code of the static strategy
StaticStatuses == {200, 404, 503}
\* response.status of page.goto, 0 when goto returns no response
JsStatuses == {0, 200, 404, 503}
\* elapsed seconds measured around the request
Latencies == {0, MaxLatency}

IsSuccess(st) == 200 <= st /\ st < 400

\* ---- adaptive throttle ---------------------------------------------------
\* _get_delay
GetDelay(d, domain) == IF domain \in DOMAIN d THEN d[domain] ELSE Ticks(MIN_DELAY)


\* _adjust_delay without the clamp to [MIN_DELAY, MAX_DELAY]
AdjustDelayNoClamp(d, domain, latency, status) ==
    LET target_delay == latency \div AUTOTHROTTLE_TARGET_CONCURRENCY
        current == GetDelay(d, domain)
        new_delay == Max(target_delay, (current + target_delay) \div 2)
    IN IF status >= 400 /\ new_delay <= current
       THEN d
       ELSE [x \in DOMAIN d \cup {domain} |-> IF x = domain THEN new_delay ELSE d[x]]

\* _adjust_delay without the early return on an error status
AdjustDelayNoHold(d, domain, latency, status) ==
    LET target_delay == latency \div AUTOTHROTTLE_TARGET_CONCURRENCY
        current == GetDelay(d, domain)
        raw == Max(target_delay, (current + target_delay) \div 2)
        new_delay == Max(Ticks(MIN_DELAY), Min(raw, Ticks(MAX_DELAY)))
    IN [x \in DOMAIN d \cup {domain} |-> IF x = domain THEN new_delay ELSE d[x]]

\* _adjust_delay: the new value of self.delays
AdjustDelay(d, domain, latency, status) ==
    LET target_delay == latency \div AUTOTHROTTLE_TARGET_CONCURRENCY
        current == GetDelay(d, domain)
        raw == Max(target_delay, (current + target_delay) \div 2)
        new_delay == Max(Ticks(MIN_DELAY), Min(raw, Ticks(MAX_DELAY)))
    IN IF status >= 400 /\ new_delay <= current
       THEN d
       ELSE [x \in DOMAIN d \cup {domain} |-> IF x = domain THEN new_delay ELSE d[x]]

\* ---- state ---------------------------------------------------------------
VARIABLES
    render_js,     \* Scraper.render_js
    urls,          \* the batch passed to scrape_urls
    seen,          \* Scraper.seen
    unique_urls,   \* scrape_urls: unique_urls
    opc,           \* position of scrape_urls
    out,           \* scrape_urls: out, once built
    client,        \* Scraper._client: "none", "open", "closed"
    playwright,    \* Scraper._playwright: "none", "started", "stopped"
    browser,       \* Scraper._browser: "none", "open", "closed"
    drivers,       \* Playwright drivers started and not stopped
    browsers,      \* browsers launched and not closed
    sem,           \* value of Scraper.semaphore
    delays,        \* Scraper.delays
    pc,            \* per task: the await it is suspended at
    attempt,       \* per task: loop variable of _fetch_with_retry
    last_error,    \* per task: last_error of _fetch_with_retry
    elapsed,       \* per task: elapsed of _fetch_js between goto and content
    status,        \* per task: status of _fetch_js between goto and content
    result,        \* per task: value being returned
    ctx,           \* per task: browser contexts opened and not closed
    hist,          \* per task: how each call of _fetch_static/_fetch_js ended
    nrec,          \* per task: number of _adjust_delay calls made
    budget,        \* failing attempts the environment may still produce
    closes,        \* the calls of close() made so far, each by its caller
    spare          \* calls of close() the owner may still make itself

vars == <<render_js, urls, seen, unique_urls, opc, out, client, playwright,
          browser, drivers, browsers, sem, delays, pc, attempt, last_error,
          elapsed, status, result, ctx, hist, nrec, budget, closes, spare>>

Tasks == DOMAIN unique_urls

\* how a call of the attempt function ended: it raised f, or returned r
Raised(f) == [raised |-> TRUE, status |-> 0, success |-> FALSE, error |-> Describe(f)]
Returned(r) == [raised |-> FALSE, status |-> r.status, success |-> r.success, error |-> r.error]

\* batches of 1..MaxBatch URLs
Batches == UNION {[1..n -> URLS] : n \in 1..MaxBatch}

\* one more distinct URL than the semaphore has slots, all on one host
BudgetBatch ==
    [k \in 1..(MAX_CONCURRENT_REQUESTS + 1) |->
        Url("http", "a.test", "/p" \o ToString(k), <<>>)]

\* Scraper.__init__, before scrape_urls is called
Fresh ==
    /\ seen = {}
    /\ unique_urls = <<>>
    /\ opc = "init"
    /\ out = <<>>
    /\ client = "none"
    /\ playwright = "none"
    /\ browser = "none"
    /\ drivers = 0
    /\ browsers = 0
    /\ sem = MAX_CONCURRENT_REQUESTS
    /\ delays = [x \in {} |-> 0]
    /\ pc = <<>>
    /\ attempt = <<>>
    /\ last_error = <<>>
    /\ elapsed = <<>>
    /\ status = <<>>
    /\ result = <<>>
    /\ ctx = <<>>
    /\ hist = <<>>
    /\ nrec = <<>>
    /\ closes = <<>>

\* a batch of up to MaxBatch URLs under either strategy, every step of
\* which succeeds
InitBatch ==
    /\ render_js \in BOOLEAN
    /\ urls \in Batches
    /\ budget = 0
    /\ spare = 0
    /\ Fresh

\* one URL under either strategy, with failures enough to use up its retries
InitOne ==
    /\ render_js \in BOOLEAN
    /\ urls = <<U1>>
    /\ budget = RetryFailures
    /\ spare = 0
    /\ Fresh

\* the static strategy with one more task than the semaphore has slots
InitBudget ==
    /\ render_js = FALSE
    /\ urls = BudgetBatch
    /\ budget = BudgetFailures
    /\ spare = 0
    /\ Fresh

\* one URL under either strategy, on a Scraper whose owner also calls
\* close() itself, before or after scrape_urls
InitOwner ==
    /\ render_js \in BOOLEAN
    /\ urls = <<U4>>
    /\ budget = 0
    /\ spare = OwnerCloses
    /\ Fresh

\* two URLs with different fingerprints under either strategy, with
\* failures
InitPair ==
    /\ render_js \in BOOLEAN
    /\ urls = <<U1, U4>>
    /\ budget = PairFailures
    /\ spare = 0
    /\ Fresh

Init == InitBatch \/ InitOne \/ InitBudget \/ InitOwner \/ InitPair

\* ---- scrape_urls ----------------------------------------------------------
\* the dedup loop: <<unique_urls, seen>> after the URLs of us
RECURSIVE Dedup(_, _, _)
Dedup(us, uniq, sn) ==
    IF us = <<>> THEN <<uniq, sn>>
    ELSE LET fp == Fingerprint(Head(us))
         IN IF fp \notin sn
            THEN Dedup(Tail(us), Append(uniq, Head(us)), sn \cup {fp})
            ELSE Dedup(Tail(us), uniq, sn)

\* dedup, then gather starts one task per unique URL; each task runs
\* _fetch_with_retry up to the throttle sleep of its first attempt
ScrapeUrls ==
    /\ opc = "init"
    /\ LET d == Dedup(urls, <<>>, seen)
           n == Len(d[1])
       IN /\ unique_urls' = d[1]
          /\ seen' = d[2]
          /\ pc' = [i \in 1..n |-> "throttle"]
          /\ attempt' = [i \in 1..n |-> 0]
          /\ last_error' = [i \in 1..n |-> ""]
          /\ elapsed' = [i \in 1..n |-> 0]
          /\ status' = [i \in 1..n |-> 0]
          /\ result' = [i \in 1..n |-> NoResult]
          /\ ctx' = [i \in 1..n |-> 0]
          /\ hist' = [i \in 1..n |-> <<>>]
          /\ nrec' = [i \in 1..n |-> 0]
    /\ opc' = "gather"
    /\ UNCHANGED <<render_js, urls, out, client, playwright, browser, drivers,
                   browsers, sem, delays, budget, closes, spare>>

\* ---- _fetch_with_retry ----------------------------------------------------
orch == <<render_js, urls, seen, unique_urls, opc, out, closes, spare>>

Running(i) == opc = "gather" /\ i \in Tasks


\* the loop without the return on success: a successful attempt is followed
\* by a backoff and another attempt while attempts remain
AttemptReturnedNoSuccessReturn(i, r) ==
    /\ hist' = [hist EXCEPT ![i] = Append(@, Returned(r))]
    /\ IF (r.success \/ r.status \in RETRY_HTTP_CODES) /\ attempt[i] < RETRY_TIMES
       THEN /\ last_error' = [last_error EXCEPT ![i] = HttpError(r.status)]
            /\ pc' = [pc EXCEPT ![i] = "backoff"]
            /\ result' = [result EXCEPT ![i] = NoResult]
       ELSE /\ pc' = [pc EXCEPT ![i] = "done"]
            /\ result' = [result EXCEPT ![i] = r]
            /\ UNCHANGED last_error
    /\ UNCHANGED attempt

\* the loop without the test against RETRY_HTTP_CODES: every failed status
\* is retried while attempts remain
AttemptReturnedRetryAny(i, r) ==
    /\ hist' = [hist EXCEPT ![i] = Append(@, Returned(r))]
    /\ IF r.success
       THEN /\ pc' = [pc EXCEPT ![i] = "done"]
            /\ result' = [result EXCEPT ![i] = r]
            /\ UNCHANGED last_error
       ELSE IF attempt[i] < RETRY_TIMES
       THEN /\ last_error' = [last_error EXCEPT ![i] = HttpError(r.status)]
            /\ pc' = [pc EXCEPT ![i] = "backoff"]
            /\ result' = [result EXCEPT ![i] = NoResult]
       ELSE /\ pc' = [pc EXCEPT ![i] = "done"]
            /\ result' = [result EXCEPT ![i] = r]
            /\ UNCHANGED last_error
    /\ UNCHANGED attempt

\* the attempt function returned r: the code after the call, up to the
\* return or the backoff sleep
AttemptReturned(i, r) ==
    /\ hist' = [hist EXCEPT ![i] = Append(@, Returned(r))]
    /\ IF r.success
       THEN /\ pc' = [pc EXCEPT ![i] = "done"]
            /\ result' = [result EXCEPT ![i] = r]
            /\ UNCHANGED last_error
       ELSE IF r.status \in RETRY_HTTP_CODES /\ attempt[i] < RETRY_TIMES
       THEN /\ last_error' = [last_error EXCEPT ![i] = HttpError(r.status)]
            /\ pc' = [pc EXCEPT ![i] = "backoff"]
            /\ result' = [result EXCEPT ![i] = NoResult]
       ELSE /\ pc' = [pc EXCEPT ![i] = "done"]
            /\ result' = [result EXCEPT ![i] = r]
            /\ UNCHANGED last_error
    /\ UNCHANGED attempt


\* the except clause keeping the first error instead of the last one
AttemptRaisedKeepFirst(i, f) ==
    /\ hist' = [hist EXCEPT ![i] = Append(@, Raised(f))]
    /\ last_error' = [last_error EXCEPT ![i] = IF @ = "" THEN Describe(f) ELSE @]
    /\ IF attempt[i] < RETRY_TIMES
       THEN /\ pc' = [pc EXCEPT ![i] = "backoff"]
            /\ result' = [result EXCEPT ![i] = NoResult]
       ELSE /\ pc' = [pc EXCEPT ![i] = "done"]
            /\ result' = [result EXCEPT ![i] =
                              ScrapeResult(0, FALSE, "", last_error'[i], FALSE)]
    /\ UNCHANGED attempt

\* the except clause without the test attempt < retry_times
AttemptRaisedNoLimit(i, f) ==
    /\ hist' = [hist EXCEPT ![i] = Append(@, Raised(f))]
    /\ last_error' = [last_error EXCEPT ![i] = Describe(f)]
    /\ pc' = [pc EXCEPT ![i] = "backoff"]
    /\ result' = [result EXCEPT ![i] = NoResult]
    /\ UNCHANGED attempt

\* the except clause going on to the next attempt without the backoff sleep
AttemptRaisedNoBackoff(i, f) ==
    /\ hist' = [hist EXCEPT ![i] = Append(@, Raised(f))]
    /\ last_error' = [last_error EXCEPT ![i] = Describe(f)]
    /\ IF attempt[i] < RETRY_TIMES
       THEN /\ pc' = [pc EXCEPT ![i] = "throttle"]
            /\ attempt' = [attempt EXCEPT ![i] = @ + 1]
            /\ result' = [result EXCEPT ![i] = NoResult]
       ELSE /\ pc' = [pc EXCEPT ![i] = "done"]
            /\ UNCHANGED attempt
            /\ result' = [result EXCEPT ![i] =
                              ScrapeResult(0, FALSE, "", Describe(f), FALSE)]

\* the attempt function raised f: the except clause, up to the backoff sleep
\* or, after the last attempt, the return below the loop
AttemptRaised(i, f) ==
    /\ hist' = [hist EXCEPT ![i] = Append(@, Raised(f))]
    /\ last_error' = [last_error EXCEPT ![i] = Describe(f)]
    /\ IF attempt[i] < RETRY_TIMES
       THEN /\ pc' = [pc EXCEPT ![i] = "backoff"]
            /\ result' = [result EXCEPT ![i] = NoResult]
       ELSE /\ pc' = [pc EXCEPT ![i] = "done"]
            /\ result' = [result EXCEPT ![i] =
                              ScrapeResult(0, FALSE, "", Describe(f), FALSE)]
    /\ UNCHANGED attempt

\* the backoff sleep is over: continue with the next attempt, up to the
\* throttle sleep of _fetch_static / _fetch_js
BackoffDone(i) ==
    /\ Running(i)
    /\ pc[i] = "backoff"
    /\ attempt' = [attempt EXCEPT ![i] = @ + 1]
    /\ pc' = [pc EXCEPT ![i] = "throttle"]
    /\ UNCHANGED <<orch, client, playwright, browser, drivers, browsers, sem,
                   delays, last_error, elapsed, status, result, ctx, hist,
                   nrec, budget>>


\* the request made without waiting for a slot
EnterNoWait(i, inside) ==
    /\ sem' = sem - 1
    /\ pc' = [pc EXCEPT ![i] = inside]

\* async with self.semaphore: take a slot, or wait for one
Enter(i, inside) ==
    IF sem > 0
    THEN /\ sem' = sem - 1
         /\ pc' = [pc EXCEPT ![i] = inside]
    ELSE /\ pc' = [pc EXCEPT ![i] = "acquire"]
         /\ UNCHANGED sem

\* a waiting task gets a slot
Acquire(i) ==
    /\ Running(i)
    /\ pc[i] = "acquire"
    /\ sem > 0
    /\ sem' = sem - 1
    /\ pc' = [pc EXCEPT ![i] = IF render_js THEN "new_context" ELSE "net"]
    /\ UNCHANGED <<orch, client, playwright, browser, drivers, browsers,
                   delays, attempt, last_error, elapsed, status, result, ctx,
                   hist, nrec, budget>>

\* ---- _fetch_static ----------------------------------------------------------
\* the throttle sleep is over: _get_client, then the semaphore and client.get
StaticWake(i) ==
    /\ Running(i)
    /\ ~render_js
    /\ pc[i] = "throttle"
    /\ client' = IF client \in {"none", "closed"} THEN "open" ELSE client
    /\ Enter(i, "net")
    /\ UNCHANGED <<orch, playwright, browser, drivers, browsers, delays,
                   attempt, last_error, elapsed, status, result, ctx, hist,
                   nrec, budget>>

\* client.get returned a response, the slot taken for it never given back
ResponseKeepsSlot(i) ==
    /\ Running(i)
    /\ pc[i] = "net"
    /\ UNCHANGED sem
    /\ \E st \in StaticStatuses, lat \in Latencies :
          LET success == IsSuccess(st)
          IN /\ success \/ budget > 0
             /\ budget' = IF success THEN budget ELSE budget - 1
             /\ delays' = AdjustDelay(delays, Domain(unique_urls[i]), Ticks(lat), st)
             /\ nrec' = [nrec EXCEPT ![i] = @ + 1]
             /\ AttemptReturned(i, ScrapeResult(st, success,
                                    IF success THEN "doc" ELSE "",
                                    IF success THEN "" ELSE HttpError(st),
                                    FALSE))
    /\ UNCHANGED <<orch, client, playwright, browser, drivers, browsers,
                   elapsed, status, ctx>>

\* client.get returned a response
Response(i) ==
    /\ Running(i)
    /\ pc[i] = "net"
    /\ sem' = sem + 1
    /\ \E st \in StaticStatuses, lat \in Latencies :
          LET success == IsSuccess(st)
          IN /\ success \/ budget > 0
             /\ budget' = IF success THEN budget ELSE budget - 1
             /\ delays' = AdjustDelay(delays, Domain(unique_urls[i]), Ticks(lat), st)
             /\ nrec' = [nrec EXCEPT ![i] = @ + 1]
             /\ AttemptReturned(i, ScrapeResult(st, success,
                                    IF success THEN "doc" ELSE "",
                                    IF success THEN "" ELSE HttpError(st),
                                    FALSE))
    /\ UNCHANGED <<orch, client, playwright, browser, drivers, browsers,
                   elapsed, status, ctx>>

\* client.get raised, the slot taken for it not given back
RequestFailedKeepsSlot(i) ==
    /\ Running(i)
    /\ pc[i] = "net"
    /\ budget > 0
    /\ budget' = budget - 1
    /\ UNCHANGED sem
    /\ \E f \in Faults : AttemptRaised(i, f)
    /\ UNCHANGED <<orch, client, playwright, browser, drivers, browsers,
                   delays, elapsed, status, ctx, nrec>>

\* client.get raised
RequestFailed(i) ==
    /\ Running(i)
    /\ pc[i] = "net"
    /\ budget > 0
    /\ budget' = budget - 1
    /\ sem' = sem + 1
    /\ \E f \in Faults : AttemptRaised(i, f)
    /\ UNCHANGED <<orch, client, playwright, browser, drivers, browsers,
                   delays, elapsed, status, ctx, nrec>>

\* ---- _get_browser ------------------------------------------------------------
\* the throttle sleep of _fetch_js is over: _get_browser up to its first
\* await, or, with self._playwright set, the browser check and the semaphore
JsWake(i) ==
    /\ Running(i)
    /\ render_js
    /\ pc[i] = "throttle"
    /\ IF playwright = "none"
       THEN /\ pc' = [pc EXCEPT ![i] = "pw_start"]
            /\ UNCHANGED <<sem, last_error, result, hist, attempt>>
       ELSE IF browser = "none"
       THEN /\ AttemptReturned(i, ScrapeResult(0, FALSE, "",
                                     "Browser not initialized", FALSE))
            /\ UNCHANGED sem
       ELSE /\ Enter(i, "new_context")
            /\ UNCHANGED <<last_error, result, hist, attempt>>
    /\ UNCHANGED <<orch, client, playwright, browser, drivers, browsers,
                   delays, elapsed, status, ctx, nrec, budget>>

\* async_playwright().start() returned: keep the driver, start the launch
PwStarted(i) ==
    /\ Running(i)
    /\ pc[i] = "pw_start"
    /\ playwright' = "started"
    /\ drivers' = drivers + 1
    /\ pc' = [pc EXCEPT ![i] = "launch"]
    /\ UNCHANGED <<orch, client, browser, browsers, sem, delays, attempt,
                   last_error, elapsed, status, result, ctx, hist, nrec,
                   budget>>

\* async_playwright().start() raised
PwStartFailed(i) ==
    /\ Running(i)
    /\ pc[i] = "pw_start"
    /\ budget > 0
    /\ budget' = budget - 1
    /\ \E f \in Faults : AttemptRaised(i, f)
    /\ UNCHANGED <<orch, client, playwright, browser, drivers, browsers, sem,
                   delays, elapsed, status, ctx, nrec>>

\* launch returned: keep the browser, return it, then the semaphore
Launched(i) ==
    /\ Running(i)
    /\ pc[i] = "launch"
    /\ browser' = "open"
    /\ browsers' = browsers + 1
    /\ Enter(i, "new_context")
    /\ UNCHANGED <<orch, client, playwright, drivers, delays, attempt,
                   last_error, elapsed, status, result, ctx, hist, nrec,
                   budget>>

\* launch raised
LaunchFailed(i) ==
    /\ Running(i)
    /\ pc[i] = "launch"
    /\ budget > 0
    /\ budget' = budget - 1
    /\ \E f \in Faults : AttemptRaised(i, f)
    /\ UNCHANGED <<orch, client, playwright, browser, drivers, browsers, sem,
                   delays, elapsed, status, ctx, nrec>>

\* ---- _fetch_js ------------------------------------------------------------------
\* browser.new_context returned
NewContext(i) ==
    /\ Running(i)
    /\ pc[i] = "new_context"
    /\ ctx' = [ctx EXCEPT ![i] = @ + 1]
    /\ pc' = [pc EXCEPT ![i] = "new_page"]
    /\ UNCHANGED <<orch, client, playwright, browser, drivers, browsers, sem,
                   delays, attempt, last_error, elapsed, status, result, hist,
                   nrec, budget>>

\* browser.new_context raised: the semaphore is left, the fault goes up
NewContextFailed(i) ==
    /\ Running(i)
    /\ pc[i] = "new_context"
    /\ budget > 0
    /\ budget' = budget - 1
    /\ sem' = sem + 1
    /\ \E f \in Faults : AttemptRaised(i, f)
    /\ UNCHANGED <<orch, client, playwright, browser, drivers, browsers,
                   delays, elapsed, status, ctx, nrec>>

\* context.new_page returned
NewPage(i) ==
    /\ Running(i)
    /\ pc[i] = "new_page"
    /\ pc' = [pc EXCEPT ![i] = "goto"]
    /\ UNCHANGED <<orch, client, playwright, browser, drivers, browsers, sem,
                   delays, attempt, last_error, elapsed, status, result, ctx,
                   hist, nrec, budget>>

\* context.new_page raised, before the try statement is entered
NewPageFailed(i) ==
    /\ Running(i)
    /\ pc[i] = "new_page"
    /\ budget > 0
    /\ budget' = budget - 1
    /\ sem' = sem + 1
    /\ \E f \in Faults : AttemptRaised(i, f)
    /\ UNCHANGED <<orch, client, playwright, browser, drivers, browsers,
                   delays, elapsed, status, ctx, nrec>>

\* page.goto returned: elapsed and status, then page.content is awaited
GotoDone(i) ==
    /\ Running(i)
    /\ pc[i] = "goto"
    /\ \E st \in JsStatuses, lat \in Latencies :
          /\ IsSuccess(st) \/ budget > 0
          /\ budget' = IF IsSuccess(st) THEN budget ELSE budget - 1
          /\ elapsed' = [elapsed EXCEPT ![i] = Ticks(lat)]
          /\ status' = [status EXCEPT ![i] = st]
    /\ pc' = [pc EXCEPT ![i] = "content"]
    /\ UNCHANGED <<orch, client, playwright, browser, drivers, browsers, sem,
                   delays, attempt, last_error, result, ctx, hist, nrec>>

\* page.goto raised: the except clause builds the result, finally closes
GotoFailed(i) ==
    /\ Running(i)
    /\ pc[i] = "goto"
    /\ budget > 0
    /\ budget' = budget - 1
    /\ \E f \in Faults :
          result' = [result EXCEPT ![i] = ScrapeResult(0, FALSE, "", Str(f), TRUE)]
    /\ pc' = [pc EXCEPT ![i] = "ctx_close"]
    /\ UNCHANGED <<orch, client, playwright, browser, drivers, browsers, sem,
                   delays, attempt, last_error, elapsed, status, ctx, hist,
                   nrec>>

\* page.content returned, the new delay computed from the value the task
\* read before its throttle sleep (MIN_DELAY on a first attempt) instead of
\* the stored one
ContentDoneStaleRead(i) ==
    /\ Running(i)
    /\ pc[i] = "content"
    /\ LET domain == Domain(unique_urls[i])
           stale == AdjustDelay([x \in {} |-> 0], domain, elapsed[i], status[i])
       IN delays' = [x \in DOMAIN delays \cup DOMAIN stale |->
                        IF x \in DOMAIN stale THEN stale[x] ELSE delays[x]]
    /\ nrec' = [nrec EXCEPT ![i] = @ + 1]
    /\ LET success == IsSuccess(status[i])
       IN result' = [result EXCEPT ![i] =
                        ScrapeResult(status[i], success, "doc",
                                     IF success THEN "" ELSE HttpError(status[i]),
                                     TRUE)]
    /\ elapsed' = [elapsed EXCEPT ![i] = 0]
    /\ status' = [status EXCEPT ![i] = 0]
    /\ pc' = [pc EXCEPT ![i] = "ctx_close"]
    /\ UNCHANGED <<orch, client, playwright, browser, drivers, browsers, sem,
                   attempt, last_error, ctx, hist, budget>>

\* page.content returned: _adjust_delay, the result, then finally closes
ContentDone(i) ==
    /\ Running(i)
    /\ pc[i] = "content"
    /\ delays' = AdjustDelay(delays, Domain(unique_urls[i]), elapsed[i], status[i])
    /\ nrec' = [nrec EXCEPT ![i] = @ + 1]
    /\ LET success == IsSuccess(status[i])
       IN result' = [result EXCEPT ![i] =
                        ScrapeResult(status[i], success, "doc",
                                     IF success THEN "" ELSE HttpError(status[i]),
                                     TRUE)]
    /\ elapsed' = [elapsed EXCEPT ![i] = 0]
    /\ status' = [status EXCEPT ![i] = 0]
    /\ pc' = [pc EXCEPT ![i] = "ctx_close"]
    /\ UNCHANGED <<orch, client, playwright, browser, drivers, browsers, sem,
                   attempt, last_error, ctx, hist, budget>>

\* page.content raised: the except clause builds the result, finally closes
ContentFailed(i) ==
    /\ Running(i)
    /\ pc[i] = "content"
    /\ budget > 0
    /\ budget' = budget - 1
    /\ \E f \in Faults :
          result' = [result EXCEPT ![i] = ScrapeResult(0, FALSE, "", Str(f), TRUE)]
    /\ elapsed' = [elapsed EXCEPT ![i] = 0]
    /\ status' = [status EXCEPT ![i] = 0]
    /\ pc' = [pc EXCEPT ![i] = "ctx_close"]
    /\ UNCHANGED <<orch, client, playwright, browser, drivers, browsers, sem,
                   delays, attempt, last_error, ctx, hist, nrec>>

\* context.close returned: the semaphore is left, the result is returned
CtxClosed(i) ==
    /\ Running(i)
    /\ pc[i] = "ctx_close"
    /\ ctx' = [ctx EXCEPT ![i] = @ - 1]
    /\ sem' = sem + 1
    /\ AttemptReturned(i, result[i])
    /\ UNCHANGED <<orch, client, playwright, browser, drivers, browsers,
                   delays, elapsed, status, nrec, budget>>

\* context.close raised (the context or its browser is already gone): its
\* fault replaces the result being returned
CtxCloseFailed(i) ==
    /\ Running(i)
    /\ pc[i] = "ctx_close"
    /\ budget > 0
    /\ budget' = budget - 1
    /\ ctx' = [ctx EXCEPT ![i] = @ - 1]
    /\ sem' = sem + 1
    /\ \E f \in Faults : AttemptRaised(i, f)
    /\ UNCHANGED <<orch, client, playwright, browser, drivers, browsers,
                   delays, elapsed, status, nrec>>

\* ---- end of scrape_urls, close ---------------------------------------------------
\* close(): the next await it reaches, looking from the given statement on
CloseStage(from, c, b, p) ==
    IF from = "client" /\ c = "open" THEN "close_client"
    ELSE IF from \in {"client", "browser"} /\ b # "none" THEN "close_browser"
    ELSE IF p # "none" THEN "close_pw"
    ELSE "returned"

taskvars == <<sem, delays, pc, attempt, last_error, elapsed, status, result,
              ctx, hist, nrec, budget>>

\* scrape_urls going on to close() as soon as one task has ended, without
\* waiting for the others
GatheredFirstCompleted ==
    /\ opc = "gather"
    /\ \E i \in Tasks : pc[i] = "done"
    /\ out' = [i \in Tasks |-> result[i]]
    /\ closes' = Append(closes, "scrape_urls")
    /\ opc' = CloseStage("client", client, browser, playwright)
    /\ UNCHANGED <<render_js, urls, seen, unique_urls, client, playwright,
                   browser, drivers, browsers, spare, taskvars>>

\* gather returned: build out, then close() up to its first await
Gathered ==
    /\ opc = "gather"
    /\ \A i \in Tasks : pc[i] = "done"
    /\ out' = [i \in Tasks |-> result[i]]
    /\ closes' = Append(closes, "scrape_urls")
    /\ opc' = CloseStage("client", client, browser, playwright)
    /\ UNCHANGED <<render_js, urls, seen, unique_urls, client, playwright,
                   browser, drivers, browsers, spare, taskvars>>

\* the caller cancels scrape_urls while it waits in gather with units in
\* flight: gather cancels every unfinished task at the await it is
\* suspended at.  CancelledError is not an Exception, so no except clause
\* of the task catches it; a task inside async with leaves the semaphore,
\* and a task inside the try statement of _fetch_js first awaits
\* context.close() in its finally clause
Cancel ==
    /\ opc = "gather"
    /\ \E i \in Tasks : pc[i] # "done"
    /\ opc' = "cancelling"
    /\ pc' = [i \in Tasks |->
                 IF pc[i] = "done" THEN "done"
                 ELSE IF pc[i] \in {"goto", "content"} THEN "cancel_close"
                 ELSE "cancelled"]
    /\ sem' = sem + Cardinality({i \in Tasks :
                        pc[i] \in {"net", "new_context", "new_page", "ctx_close"}})
    /\ ctx' = [i \in Tasks |-> IF pc[i] = "ctx_close" THEN ctx[i] - 1 ELSE ctx[i]]
    /\ UNCHANGED <<render_js, urls, seen, unique_urls, out, closes, spare,
                   client, playwright, browser, drivers, browsers, delays,
                   attempt, last_error, elapsed, status, result, hist, nrec,
                   budget>>

\* context.close() returned in the finally clause of a cancelled task: the
\* semaphore is left and the task ends cancelled
CancelClose(i) ==
    /\ opc = "cancelling"
    /\ i \in Tasks
    /\ pc[i] = "cancel_close"
    /\ ctx' = [ctx EXCEPT ![i] = @ - 1]
    /\ sem' = sem + 1
    /\ pc' = [pc EXCEPT ![i] = "cancelled"]
    /\ UNCHANGED <<orch, client, playwright, browser, drivers, browsers,
                   delays, attempt, last_error, elapsed, status, result, hist,
                   nrec, budget>>

\* every task has ended: gather raises CancelledError in scrape_urls at the
\* await of line 90, and it leaves scrape_urls
Abandoned ==
    /\ opc = "cancelling"
    /\ \A i \in Tasks : pc[i] \in {"done", "cancelled"}
    /\ opc' = "cancelled"
    /\ UNCHANGED <<render_js, urls, seen, unique_urls, out, closes, spare,
                   client, playwright, browser, drivers, browsers, taskvars>>

\* the owner of the Scraper calls close() itself, on a Scraper that has not
\* run yet or after scrape_urls returned: close() up to its first await,
\* or, with nothing to release, up to its return
Close ==
    /\ opc \in {"init", "returned"}
    /\ spare > 0
    /\ spare' = spare - 1
    /\ closes' = Append(closes, "owner")
    /\ opc' = LET stage == CloseStage("client", client, browser, playwright)
              IN IF stage = "returned" THEN opc ELSE stage
    /\ UNCHANGED <<render_js, urls, seen, unique_urls, out, client,
                   playwright, browser, drivers, browsers, taskvars>>

\* self._client.aclose() returned
ClientClosed ==
    /\ opc = "close_client"
    /\ client' = "closed"
    /\ opc' = CloseStage("browser", client', browser, playwright)
    /\ UNCHANGED <<render_js, urls, seen, unique_urls, out, playwright,
                   browser, drivers, browsers, closes, spare, taskvars>>

\* self._browser.close() returned
BrowserClosed ==
    /\ opc = "close_browser"
    /\ browser' = "closed"
    /\ browsers' = IF browser = "open" THEN browsers - 1 ELSE browsers
    /\ opc' = CloseStage("pw", client, browser', playwright)
    /\ UNCHANGED <<render_js, urls, seen, unique_urls, out, client,
                   playwright, drivers, closes, spare, taskvars>>

\* self._playwright.stop() returned: close() returns
PlaywrightStopped ==
    /\ opc = "close_pw"
    /\ playwright' = "stopped"
    /\ drivers' = IF playwright = "started" THEN drivers - 1 ELSE drivers
    /\ opc' = "returned"
    /\ UNCHANGED <<render_js, urls, seen, unique_urls, out, client, browser,
                   browsers, closes, spare, taskvars>>

\* an await of close() raised: the fault leaves close() and its caller
CloseFailed ==
    /\ opc \in {"close_client", "close_browser", "close_pw"}
    /\ opc' = "raised"
    /\ UNCHANGED <<render_js, urls, seen, unique_urls, out, client,
                   playwright, browser, drivers, browsers, closes, spare,
                   taskvars>>

Next ==
    \/ ScrapeUrls
    \/ \E i \in Tasks : BackoffDone(i)
    \/ \E i \in Tasks : Acquire(i)
    \/ \E i \in Tasks : StaticWake(i)
    \/ \E i \in Tasks : Response(i)
    \/ \E i \in Tasks : RequestFailed(i)
    \/ \E i \in Tasks : JsWake(i)
    \/ \E i \in Tasks : PwStarted(i)
    \/ \E i \in Tasks : PwStartFailed(i)
    \/ \E i \in Tasks : Launched(i)
    \/ \E i \in Tasks : LaunchFailed(i)
    \/ \E i \in Tasks : NewContext(i)
    \/ \E i \in Tasks : NewContextFailed(i)
    \/ \E i \in Tasks : NewPage(i)
    \/ \E i \in Tasks : NewPageFailed(i)
    \/ \E i \in Tasks : GotoDone(i)
    \/ \E i \in Tasks : GotoFailed(i)
    \/ \E i \in Tasks : ContentDone(i)
    \/ \E i \in Tasks : ContentFailed(i)
    \/ \E i \in Tasks : CtxClosed(i)
    \/ \E i \in Tasks : CtxCloseFailed(i)
    \/ Gathered
    \/ Cancel
    \/ \E i \in Tasks : CancelClose(i)
    \/ Abandoned
    \/ Close
    \/ ClientClosed
    \/ BrowserClosed
    \/ PlaywrightStopped
    \/ CloseFailed

Spec == Init /\ [][Next]_vars

\* ---- scheduling ---------------------------------------------------------------
\* the step task i is suspended at finishes, with a result or with a fault
TaskStep(i) ==
    \/ BackoffDone(i)
    \/ Acquire(i)
    \/ StaticWake(i)
    \/ Response(i)
    \/ RequestFailed(i)
    \/ JsWake(i)
    \/ PwStarted(i)
    \/ PwStartFailed(i)
    \/ Launched(i)
    \/ LaunchFailed(i)
    \/ NewContext(i)
    \/ NewContextFailed(i)
    \/ NewPage(i)
    \/ NewPageFailed(i)
    \/ GotoDone(i)
    \/ GotoFailed(i)
    \/ ContentDone(i)
    \/ ContentFailed(i)
    \/ CtxClosed(i)
    \/ CtxCloseFailed(i)
    \/ CancelClose(i)

\* some task that is ready runs
AnyTaskStep == \E i \in Tasks : TaskStep(i)

\* the release action close() is suspended at finishes
CloseStep == ClientClosed \/ BrowserClosed \/ PlaywrightStopped \/ CloseFailed

\* scrape_urls itself runs when it is ready
RunStep == ScrapeUrls \/ Gathered \/ Abandoned \/ CloseStep

\* the event loop keeps running coroutines that are ready: every sleep
\* elapses, every awaited call finishes, and a task waiting for a slot is
\* woken when one is free.  No order among the ready tasks is assumed, and
\* the caller's cancellation and the owner's own calls of close() are not
\* owed
Fairness ==
    /\ WF_vars(AnyTaskStep)
    /\ WF_vars(RunStep)

\* the runs checked under fairness: batches of up to MaxBatch URLs, one URL
\* with failures, more tasks than slots, and the owner's own calls of close()
InitFair == InitBatch \/ InitOne \/ InitBudget \/ InitOwner

SpecFair == InitFair /\ [][Next]_vars /\ Fairness

\* ---- properties ------------------------------------------------------------------
Last(q) == q[Len(q)]

\* the number of times token t occurs in query q
Occurrences(q, t) == Cardinality({k \in DOMAIN q : q[k] = t})

\* u and v have the same lower-cased scheme and host, the same path and the
\* same multiset of query tokens
SameFingerprint(u, v) ==
    /\ Lower(u.scheme) = Lower(v.scheme)
    /\ Lower(u.netloc) = Lower(v.netloc)
    /\ u.path = v.path
    /\ \A t \in {u.query[k] : k \in DOMAIN u.query} \cup {v.query[k] : k \in DOMAIN v.query} :
          Occurrences(u.query, t) = Occurrences(v.query, t)

\* the positions of the batch, grouped by fingerprint
FingerprintClasses ==
    {{k \in DOMAIN urls : SameFingerprint(urls[k], urls[j])} : j \in DOMAIN urls}

\* C1: URLs of a batch with the same fingerprint produce one outcome between
\* them: from the dedup on there is one task per distinct fingerprint of the
\* batch, no two tasks fetch the same fingerprint, and scrape_urls returns
\* as many outcomes as the batch has distinct fingerprints.
C1_OneOutcomePerFingerprint ==
    /\ opc # "init" => Len(unique_urls) = Cardinality(FingerprintClasses)
    /\ \A i, j \in Tasks :
          i # j => ~SameFingerprint(unique_urls[i], unique_urls[j])
    /\ opc = "returned" => Len(out) = Cardinality(FingerprintClasses)

\* scrape_urls returned one outcome for a batch of two different URLs that
\* have the same fingerprint
C1_Witness ==
    /\ opc = "returned"
    /\ Len(urls) = 2
    /\ urls[1] # urls[2]
    /\ SameFingerprint(urls[1], urls[2])
    /\ Len(out) = 1

\* task i is executing its network/browser step: client.get in
\* _fetch_static, new_context .. context.close in _fetch_js
InNetworkStep(i) ==
    pc[i] \in {"net", "new_context", "new_page", "goto", "content", "ctx_close",
              "cancel_close"}

C3_DelayWithinBounds ==
    \A d \in DOMAIN delays \cup Netlocs \cup {"unseen.test"} :
        /\ Ticks(MIN_DELAY) <= GetDelay(delays, d)
        /\ GetDelay(delays, d) <= Ticks(MAX_DELAY)

\* two requests were recorded for an origin whose stored delay is MAX_DELAY
C3_Witness ==
    \E i, j \in Tasks :
        /\ i # j
        /\ Domain(unique_urls[i]) = Domain(unique_urls[j])
        /\ nrec[i] > 0
        /\ nrec[j] > 0
        /\ Domain(unique_urls[i]) \in DOMAIN delays
        /\ delays[Domain(unique_urls[i])] = Ticks(MAX_DELAY)

\* status codes of error responses
ErrorStatuses == {400, 503}

\* C4: in every state, an _adjust_delay call for any origin with any latency
\* and a status >= 400 leaves that origin's delay greater than or equal to
\* what it was before the call.
C4_ErrorNeverLowersDelay ==
    \A d \in DOMAIN delays \cup {"unseen.test"}, lat \in 0..MaxLatency, st \in ErrorStatuses :
        GetDelay(AdjustDelay(delays, d, Ticks(lat), st), d) >= GetDelay(delays, d)

\* two error statuses were recorded for an origin, and its delay is MAX_DELAY
C4_Witness ==
    \E i \in Tasks :
        /\ Len(hist[i]) >= 2
        /\ ~hist[i][1].raised /\ hist[i][1].status >= 400
        /\ ~hist[i][2].raised /\ hist[i][2].status >= 400
        /\ nrec[i] >= 2
        /\ GetDelay(delays, Domain(unique_urls[i])) = Ticks(MAX_DELAY)

\* every call of the attempt function made for task i raised
AllRaised(i) == \A k \in DOMAIN hist[i] : hist[i][k].raised

\* C5: a task whose every attempt raised a fault ends after exactly
\* 1 + RETRY_TIMES calls of the attempt function, with a failure outcome
\* whose error describes the last fault raised.
C5_AlwaysFaulting ==
    \A i \in Tasks :
        (pc[i] = "done" /\ AllRaised(i)) =>
            /\ Len(hist[i]) = 1 + RETRY_TIMES
            /\ result[i].set
            /\ ~result[i].success
            /\ result[i].error = Last(hist[i]).error

\* a task ended after 1 + RETRY_TIMES faults, the last one unlike the first
C5_Witness ==
    \E i \in Tasks :
        /\ pc[i] = "done"
        /\ AllRaised(i)
        /\ Len(hist[i]) = 1 + RETRY_TIMES
        /\ hist[i][1].error # Last(hist[i]).error
        /\ result[i].error = Last(hist[i]).error

\* a call of the attempt function ended in a retryable status or a fault
Retryable(h) == h.raised \/ (~h.success /\ h.status \in RETRY_HTTP_CODES)

\* C6: when the k-th attempt of a task is its first successful one, the
\* earlier ones having ended in a retryable status or a fault, the task has
\* ended with that attempt's outcome (success, that status) after exactly
\* k calls, and k <= 1 + RETRY_TIMES.
C6_FirstSuccessReturned ==
    \A i \in Tasks : \A k \in DOMAIN hist[i] :
        (hist[i][k].success /\ \A j \in 1..(k - 1) : Retryable(hist[i][j])) =>
            /\ k = Len(hist[i])
            /\ k <= 1 + RETRY_TIMES
            /\ pc[i] = "done"
            /\ result[i].success
            /\ result[i].status = hist[i][k].status

\* statuses 503, 503, 200: success with status 200 after three attempts
C6_Witness ==
    \E i \in Tasks :
        /\ Len(hist[i]) = 3
        /\ ~hist[i][1].raised /\ hist[i][1].status = 503
        /\ ~hist[i][2].raised /\ hist[i][2].status = 503
        /\ hist[i][3].status = 200
        /\ pc[i] = "done"
        /\ result[i].success
        /\ result[i].status = 200

\* calls of the attempt function made for task i, the one in progress included
Calls(i) == Len(hist[i]) + (IF pc[i] \in {"backoff", "done"} THEN 0 ELSE 1)

\* C7: a task makes at least one and at most 1 + RETRY_TIMES attempts and
\* ends with exactly one outcome, a success or a failure: a task that has
\* ended has an outcome, and neither the task nor its outcome changes
\* afterwards.
C7_OneFinalOutcome ==
    /\ [](\A i \in Tasks :
            /\ Calls(i) >= 1
            /\ Calls(i) <= 1 + RETRY_TIMES
            /\ pc[i] = "done" => (result[i].set /\ result[i].success \in BOOLEAN))
    /\ [][\A i \in Tasks :
            pc[i] = "done" => (pc'[i] = "done" /\ result'[i] = result[i])]_vars

\* a task ended with a success at its last allowed attempt, after a fault
\* and a retryable status
C7_Witness ==
    \E i \in Tasks :
        /\ pc[i] = "done"
        /\ Len(hist[i]) = 1 + RETRY_TIMES
        /\ \E k \in DOMAIN hist[i] : hist[i][k].raised
        /\ \E k \in DOMAIN hist[i] : ~hist[i][k].raised /\ ~hist[i][k].success
        /\ result[i].success

\* a call of the attempt function returned a failure that is not retryable
FinalFailure(h) == ~h.raised /\ ~h.success /\ h.status \notin RETRY_HTTP_CODES

\* C8: an attempt that returns a failure status outside RETRY_HTTP_CODES is
\* the task's last one, whatever its index: the task has ended with that
\* outcome, without backoff.
C8_NonRetryableReturned ==
    \A i \in Tasks : \A k \in DOMAIN hist[i] :
        FinalFailure(hist[i][k]) =>
            /\ k = Len(hist[i])
            /\ pc[i] = "done"
            /\ ~result[i].success
            /\ result[i].status = hist[i][k].status
            /\ result[i].error = hist[i][k].error

\* status 404 at the second attempt, after a retried 503
C8_Witness ==
    \E i \in Tasks :
        /\ Len(hist[i]) = 2
        /\ hist[i][1].status = 503
        /\ ~hist[i][2].raised /\ hist[i][2].status = 404
        /\ pc[i] = "done"
        /\ result[i].status = 404

\* a call of _fetch_js ended in a fault of page.goto or page.content
RenderFault(h) == ~h.raised /\ h.error \in {Str(f) : f \in Faults}

\* C9: in render mode an attempt that ends in a rendering fault is followed,
\* while attempts remain, by a backoff and another attempt.
C9_RenderFaultRetried ==
    \A i \in Tasks : \A k \in DOMAIN hist[i] :
        (render_js /\ RenderFault(hist[i][k]) /\ k < 1 + RETRY_TIMES) =>
            (k < Len(hist[i]) \/ pc[i] = "backoff")

\* task i is inside _fetch_js between new_context and the end of finally
ContextInUse(i) ==
    pc[i] \in {"new_page", "goto", "content", "ctx_close", "cancel_close"}

\* C10: no attempt has ended while a context it opened is still open, and an
\* attempt that ended in a rendering fault has a failure outcome marked
\* rendered with a non-empty error.
C10_ContextAlwaysClosed ==
    \A i \in Tasks :
        /\ ~ContextInUse(i) => ctx[i] = 0
        /\ (pc[i] = "done" /\ hist[i] # <<>> /\ RenderFault(Last(hist[i]))) =>
              (~result[i].success /\ result[i].rendered /\ result[i].error # "")

\* task i is between two calls of the attempt function, or has ended
BetweenAttempts(i) == pc[i] \in {"backoff", "done"}

\* C11: every attempt of a task, however it ended (success status, failure
\* status or fault), caused exactly one _adjust_delay record: between
\* attempts and at the end, the records made for a task are as many as the
\* attempts it has made.
C11_OneRecordPerAttempt ==
    \A i \in Tasks : BetweenAttempts(i) => nrec[i] = Len(hist[i])

\* the calls of close() made by scrape_urls
RunCloses == Cardinality({k \in DOMAIN closes : closes[k] = "scrape_urls"})

\* close() is suspended at one of its release actions
Releasing == opc \in {"close_client", "close_browser", "close_pw"}

\* C12: scrape_urls calls close() at most once, only when every task has
\* ended, and has called it exactly once when it returns, whether its tasks
\* succeeded, failed or raised.
C12_CloseOnceAfterAllUnits ==
    /\ RunCloses <= 1
    /\ RunCloses = 1 => \A i \in Tasks : pc[i] = "done"
    /\ opc \in {"init", "gather"} => RunCloses = 0
    /\ opc = "returned" => RunCloses = 1

\* scrape_urls returned after one close() that released the client; the
\* one task had ended with a fault at every attempt
C12_Witness ==
    /\ opc = "returned"
    /\ closes = <<"scrape_urls">>
    /\ client = "closed"
    /\ \E i \in Tasks : AllRaised(i) /\ Len(hist[i]) = 1 + RETRY_TIMES

\* C13: when scrape_urls has been cancelled during the gather and the
\* cancellation has left it, no client, browser or Playwright driver created
\* in the run is left open.
C13_CancelledRunReleases ==
    opc = "cancelled" =>
        /\ client # "open"
        /\ browsers = 0
        /\ drivers = 0

\* the latest call of close() is one the owner made after the close() of
\* scrape_urls had completed
ClosedAgain == RunCloses = 1 /\ Last(closes) = "owner"

\* C14: close() on a Scraper that never created a client, browser or driver
\* reaches no release action and does not fail; a call of close() made after
\* an earlier call has completed reaches no release action either.
C14_CloseIdempotent ==
    /\ (closes # <<>> /\ client = "none" /\ browser = "none" /\ playwright = "none") =>
          (~Releasing /\ opc # "raised")
    /\ ClosedAgain => ~Releasing

\* C15: a fault raised by a release action of the close() that scrape_urls
\* calls does not leave scrape_urls.
C15_CloseFaultNotPropagated ==
    (closes # <<>> /\ Last(closes) = "scrape_urls") => opc # "raised"

\* C16: every outcome scrape_urls returns has an empty error and a body when
\* success is true, and an empty body and a non-empty error when success is
\* false.
C16_BodyXorError ==
    opc = "returned" =>
        \A k \in DOMAIN out :
            /\ out[k].set
            /\ out[k].success => (out[k].error = "" /\ out[k].html # "")
            /\ ~out[k].success => (out[k].html = "" /\ out[k].error # "")

\* a call of the attempt function ended in a fault or a failed status of
\* the task's own network/browser steps
OwnFailure(h) == h.raised \/ (~h.success /\ h.error # "Browser not initialized")

\* some call of the attempt function made for task i ended in a failure of
\* its own steps
Failed(i) == \E k \in DOMAIN hist[i] : OwnFailure(hist[i][k])

\* C17: when a unit of work failed, scrape_urls still returns one outcome
\* for every unique URL, the outcome of a URL whose last attempt failed is a
\* failure, and a URL none of whose own steps failed has the success outcome
\* it has when no other URL fails.
C17_FailureIsolated ==
    opc = "returned" =>
        /\ DOMAIN out = Tasks
        /\ \A i \in Tasks : ~Last(hist[i]).success => ~out[i].success
        /\ (\E i \in Tasks : Failed(i)) =>
              \A j \in Tasks : ~Failed(j) => out[j].success

\* u and v have the same origin: scheme and host equal up to letter case
SameOrigin(u, v) ==
    /\ Lower(u.scheme) = Lower(v.scheme)
    /\ Lower(u.netloc) = Lower(v.netloc)

\* C18: the URLs of two tasks that have the same origin read the same delay
\* in every state, and the URLs of two tasks with different origins use
\* different entries of self.delays.
C18_KeyedByOrigin ==
    \A i, j \in Tasks :
        /\ SameOrigin(unique_urls[i], unique_urls[j]) =>
              GetDelay(delays, Domain(unique_urls[i])) =
                 GetDelay(delays, Domain(unique_urls[j]))
        /\ ~SameOrigin(unique_urls[i], unique_urls[j]) =>
              Domain(unique_urls[i]) # Domain(unique_urls[j])

\* C19: a task has at most one attempt in progress: the attempts it has
\* started are as many as the ones it has finished, or one more while an
\* attempt is in progress, and the next attempt starts only from the end of
\* the backoff sleep that follows the previous one, whatever the other tasks
\* do.
C19_AttemptsSequential ==
    /\ [](\A i \in Tasks :
            /\ Len(hist[i]) \in {attempt[i], attempt[i] + 1}
            /\ BetweenAttempts(i) => Len(hist[i]) = attempt[i] + 1
            /\ pc[i] \notin {"backoff", "done", "cancelled"} =>
                  Len(hist[i]) = attempt[i])
    /\ [][\A i \in Tasks :
            attempt'[i] # attempt[i] =>
                /\ pc[i] = "backoff"
                /\ Len(hist[i]) = attempt[i] + 1
                /\ attempt'[i] = attempt[i] + 1
                /\ hist'[i] = hist[i]]_vars

\* a task is in the network step of its second attempt while the other task
\* is in its network/browser step too
C19_Witness ==
    \E i, j \in Tasks :
        /\ i # j
        /\ attempt[i] = 1
        /\ Len(hist[i]) = 1
        /\ InNetworkStep(i)
        /\ InNetworkStep(j)

\* scrape_urls was cancelled by its caller
WasCancelled == opc \in {"cancelling", "cancelled"}

Records(i) == nrec'[i] = nrec[i] + 1

\* C21: no throttle update is lost: every record a task makes is the
\* _adjust_delay update applied to the delays as stored at that moment, with
\* the latency and status of the attempt that completed, and self.delays
\* changes in no other way, so that the stored delay is the result of
\* applying the updates one after another in the order of the records.
C21_NoLostUpdate ==
    [][/\ \A i \in Tasks :
             Records(i) =>
                 /\ \A j \in Tasks \ {i} : nrec'[j] = nrec[j]
                 /\ IF render_js
                    THEN delays' = AdjustDelay(delays, Domain(unique_urls[i]),
                                               elapsed[i], status[i])
                    ELSE \E lat \in Latencies :
                            delays' = AdjustDelay(delays, Domain(unique_urls[i]),
                                                  Ticks(lat), Last(hist'[i]).status)
       /\ delays' # delays => \E i \in Tasks : Records(i)]_vars

\* two tasks of one origin have each made a record, a slow success and then
\* a fast one: the stored delay is halfway down from MAX_DELAY, which only
\* the second update applied to the result of the first gives
C21_Witness ==
    \E i, j \in Tasks :
        /\ i # j
        /\ Domain(unique_urls[i]) = Domain(unique_urls[j])
        /\ nrec[i] = 1
        /\ nrec[j] = 1
        /\ GetDelay(delays, Domain(unique_urls[i])) = Ticks(MAX_DELAY) \div 2

\* a call of _fetch_js ended with the result returned when _get_browser gave
\* no browser
BrowserMissing(h) == ~h.raised /\ h.error = "Browser not initialized"

\* C22: the browser is initialised once for all tasks: at most one Playwright
\* driver and one browser are started, no attempt ends with 'Browser not
\* initialized' in a run in which no call has raised, and when scrape_urls
\* returns every driver and browser that was started has been released.
C22_BrowserInitialisedOnce ==
    /\ drivers <= 1
    /\ browsers <= 1
    /\ (\E i \in Tasks : \E k \in DOMAIN hist[i] : BrowserMissing(hist[i][k])) =>
          \E j \in Tasks : \E k \in DOMAIN hist[j] : hist[j][k].raised
    /\ opc = "returned" => (drivers = 0 /\ browsers = 0)

\* C23: the slots taken are exactly those of the tasks executing their
\* network/browser step, so that no task holds a slot during its throttle
\* wait, its wait for a slot or its backoff sleep, or after its step ended,
\* by a fault as well as by a response; when scrape_urls has returned all
\* MAX_CONCURRENT_REQUESTS slots are free.
C23_SlotOnlyInStep ==
    /\ sem = MAX_CONCURRENT_REQUESTS - Cardinality({i \in Tasks : InNetworkStep(i)})
    /\ opc = "returned" => sem = MAX_CONCURRENT_REQUESTS

\* a task is in its backoff sleep after its network/browser step raised
\* while another task is in its step: one slot is taken
C23_Witness ==
    \E i, j \in Tasks :
        /\ pc[i] = "backoff"
        /\ Last(hist[i]).raised
        /\ InNetworkStep(j)
        /\ sem = MAX_CONCURRENT_REQUESTS - 1

====
